---- MODULE Spec2Model ----
(***************************************************************************)
(* Agent lifecycle of the matriarch server: the HTTP handlers of           *)
(* routers/updated_agents.py, the registry ServerState and the             *)
(* AgentController of models/updated_server_state.py, and the rows of      *)
(* database/manager.py that the registry reads.                            *)
(*                                                                         *)
(* Scheduling is that of asyncio: every coroutine runs on the one event    *)
(* loop thread and gives up control only at an await that really           *)
(* suspends.  Awaiting is_running(), acquiring a free asyncio.Lock and     *)
(* asyncio.create_task() do not suspend, so one action of this module is   *)
(* the code between two suspension points.  The suspension points are the  *)
(* wait_for on the stop event in the loop task and the wait_for on the     *)
(* loop task in stop_agent_loop.  A synchronous call made by a handler     *)
(* (create_zerepy_agent_from_db, perform_action) blocks the event loop:    *)
(* time passes while no other coroutine runs.  Otherwise time advances     *)
(* only while no coroutine is ready to run.                                *)
(* asyncio.wait_for(task, timeout) cancels the awaited task when the       *)
(* timeout elapses and waits until it has ended, as documented.  Where     *)
(* the outcome depends on the interpreter's wait_for (a cancellation that  *)
(* meets a wait whose result is already there, a deadline reached when     *)
(* the task has just ended) every outcome is a possible step.              *)
(*                                                                         *)
(* Spec is the lifecycle under requests that name agents by normalized     *)
(* names and ids.  StoreSpec is the requests on stored configs (create,    *)
(* get, update, delete) under every spelling of a name, with the config    *)
(* entries as database/models.py stores and returns them.  FaultSpec is    *)
(* Spec with a loop task whose statements may raise.  ControllerSpec is     *)
(* Spec with callers that call start_agent_loop on an existing controller, *)
(* StatusSpec adds callers of is_running().  KeySpec is the lifecycle with *)
(* two stored agents.  NameSpec applies the name normalization to          *)
(* arbitrary names and SafeSpec applies SafeAgentConfig.from_internal of   *)
(* models/configuration.py to internal configs.  FileSpec is the           *)
(* file-backed ServerState of models/server_state.py with its delete.      *)
(***************************************************************************)
EXTENDS Integers, Sequences, FiniteSets, Bags, TLC

\* ---- bounds of the model ----
MaxControllers == 2
MaxCalls == 2
MaxAgents == 2

\* ---- program constants ----
LoopCadence == 2
StopTimeout == 5
ErrorBackoff == 5

\* ---- names ----
\* A name is a sequence of one-character strings.
Names == { <<"a">>, <<"1">> }
NewNames == { <<"a">> }
Digits == { "1", "2" }
NoRow == << >>

Lower(ch) == IF ch = "A" THEN "a" ELSE ch

\* a normalization that swaps the case of letters
swap_case_agent_name(agent_name) ==
    [ i \in 1..Len(agent_name) |->
        IF agent_name[i] = " " THEN "_"
        ELSE IF agent_name[i] = "A" THEN "a"
        ELSE IF agent_name[i] = "a" THEN "A" ELSE agent_name[i] ]

\* agent_name.replace(' ', '_').lower()
make_safe_agent_name(agent_name) ==
    [ i \in 1..Len(agent_name) |->
        Lower(IF agent_name[i] = " " THEN "_" ELSE agent_name[i]) ]

\* the names of the requests on stored configs: spellings of one key, and a
\* numeric name
StoreNewNames == { <<"A", " ", "a">>, <<"a", "_", "a">>, <<"1">> }
StoreNames == StoreNewNames \cup { <<"a", " ", "a">>, <<"A", "_", "a">> }

Keys == { make_safe_agent_name(n) : n \in Names \cup StoreNames }

\* Python int(str): surrounding whitespace is stripped, digits may be
\* separated by single underscores.
RECURSIVE LStrip(_)
LStrip(s) == IF Len(s) > 0 /\ s[1] = " " THEN LStrip(Tail(s)) ELSE s

RECURSIVE RStrip(_)
RStrip(s) ==
    IF Len(s) > 0 /\ s[Len(s)] = " " THEN RStrip(SubSeq(s, 1, Len(s) - 1)) ELSE s

Strip(s) == RStrip(LStrip(s))

IsIntLiteral(s) ==
    LET t == Strip(s) IN
    /\ Len(t) > 0
    /\ t[1] \in Digits
    /\ t[Len(t)] \in Digits
    /\ \A i \in 1..Len(t) : t[i] \in Digits \cup {"_"}
    /\ \A i \in 1..(Len(t) - 1) : ~(t[i] = "_" /\ t[i + 1] = "_")

DigitValue(ch) == IF ch = "1" THEN 1 ELSE 2

RECURSIVE IntValueOf(_, _)
IntValueOf(t, acc) ==
    IF Len(t) = 0 THEN acc
    ELSE IF t[1] = "_" THEN IntValueOf(Tail(t), acc)
    ELSE IntValueOf(Tail(t), 10 * acc + DigitValue(t[1]))

ParseInt(s) == IntValueOf(Strip(s), 0)

VARIABLES
    db,            \* rows of table agent: id -> stored name, NoRow when absent
    details,       \* id -> the other columns and the child rows of the agent row
    agent_loops,   \* ServerState.agent_loops: safe name -> controller, 0 when absent
    controllers,   \* AgentController objects: _stop_event, _task, _running_lock
    tasks,         \* asyncio tasks running _run_agent_loop
    calls,         \* bag of the handler frames suspended in stop_agent_loop
    resp           \* the HTTP response produced by the last step, if any

vars == << db, details, agent_loops, controllers, tasks, calls, resp >>

AgentIds == 1..MaxAgents
ControllerIds == 1..MaxControllers
TaskIds == 1..MaxControllers

\* fatal: the controller's loop task was ended by an error outside the
\* iteration's try block.  backoff: the task's current or last wait is the
\* one of the error handler.
NoController == [ made |-> FALSE, key |-> NoRow, stop_event |-> FALSE,
                  task |-> 0, running_lock |-> FALSE, fatal |-> FALSE ]
NoTask == [ pc |-> "unused", ctl |-> 0, timer |-> 0, must_cancel |-> FALSE,
            backoff |-> FALSE ]

\* ---- responses ----
\* status: the HTTP status; ret: what the ServerState method returned ("true",
\* "false", "value", "null", "raised", or "none" when it was not called); why:
\* the branch that returned; ctl_ret: what the controller's method returned;
\* ctl: the controller a stop acted on; row_name: the stored name of the row a
\* delete removed; row: the row a create, get or update answered with; body: the
\* config a create was sent.
Resp(op, name, status, ret, why, ctl_ret) ==
    [ op |-> op, name |-> name, status |-> status, ret |-> ret, why |-> why,
      ctl_ret |-> ctl_ret, ctl |-> 0, row_name |-> NoRow, row |-> 0,
      body |-> NoRow ]
NoResp == Resp("none", NoRow, 0, "none", "none", "none")
Bool(b) == IF b THEN "true" ELSE "false"

\* ---- database/manager.py ----
RowIds == { i \in AgentIds : db[i] # NoRow }

\* session.get(Agent, agent_id)
get_agent_by_id(agent_id) ==
    IF agent_id \in RowIds THEN agent_id ELSE 0

\* select(Agent).where(Agent.name == agent_name).first()
get_agent_by_name(agent_name) ==
    LET hits == { i \in RowIds : db[i] = agent_name } IN
    IF hits = {} THEN 0 ELSE CHOOSE i \in hits : \A j \in hits : i <= j

\* the rowid sqlite gives a new row: one more than the largest in use
NextRowId == IF RowIds = {} THEN 1
             ELSE (CHOOSE i \in RowIds : \A j \in RowIds : j <= i) + 1

\* ---- database/models.py: what is stored of a config and what is read back ----
Absent == "absent"
Null == "null"

\* an entry of the config list of a request: its name and the keys it carries
Entry(name, network, rpc, private_key, model) ==
    [ name |-> name, network |-> network, rpc |-> rpc,
      private_key |-> private_key, model |-> model ]

OpenAIEntry == Entry("openai", Absent, Absent, Absent, "m")
SolanaEntry == Entry("solana", Absent, "r", Absent, Absent)
SonicEntry == Entry("sonic", "mainnet", Absent, Absent, Absent)
EntryLists == { << >>, << OpenAIEntry >>, << SolanaEntry, SonicEntry >> }

\* the body of a create request (schemas.AgentCreate)
AgentCreate(name, config) ==
    [ name |-> name, bio |-> << "x" >>,
      tasks |-> << [ name |-> "t", weight |-> 1 ] >>, config |-> config ]

\* json.dumps of a list of strings, as tokens, and json.loads of the text
JsonDumps(list) ==
    IF Len(list) = 0 THEN << "[", "]" >>
    ELSE [ i \in 1..(2 * Len(list) + 1) |->
             IF i = 1 THEN "["
             ELSE IF i = 2 * Len(list) + 1 THEN "]"
             ELSE IF i % 2 = 0 THEN list[i \div 2]
             ELSE "," ]

JsonLoads(text) == [ i \in 1..((Len(text) - 1) \div 2) |-> text[2 * i] ]

\* data.get(key): None for a key the entry does not carry
Get(value) == IF value = Absent THEN Null ELSE value

\* ConfigBase.from_dict: the row stored for an entry.  The attributes column is
\* the fields network, rpc, private_key, model of the row.
from_dict(data, agent_id) ==
    IF data.name = "openai"
    THEN [ name |-> "openai", config_type |-> "openai", agent_id |-> agent_id,
           network |-> Absent, rpc |-> Absent, private_key |-> Absent,
           model |-> IF data.model = Absent THEN "gpt-4o" ELSE data.model ]
    ELSE IF data.name \in { "solana", "ethereum", "sonic" }
    THEN [ name |-> IF data.network = Absent THEN "network" ELSE data.network,
           config_type |-> "network", agent_id |-> agent_id,
           network |-> Get(data.network), rpc |-> Get(data.rpc),
           private_key |-> Get(data.private_key), model |-> Absent ]
    ELSE [ name |-> data.name, config_type |-> data.name, agent_id |-> agent_id,
           network |-> data.network, rpc |-> data.rpc,
           private_key |-> data.private_key, model |-> data.model ]

\* ConfigBase.to_config_dict: name and config_type of the row, then its attributes
to_config_dict(config) ==
    [ name |-> config.name, config_type |-> config.config_type,
      network |-> config.network, rpc |-> config.rpc,
      private_key |-> config.private_key, model |-> config.model ]

NoDetails == [ bio |-> << >>, tasks |-> << >>, configs |-> << >> ]

\* db_manager.add_agent: Agent.from_dict turns the lists into JSON text, then
\* one ConfigBase row per entry and one Task row per task
add_agent(agent_dict, agent_id) ==
    [ bio |-> JsonDumps(agent_dict.bio),
      tasks |-> [ i \in DOMAIN agent_dict.tasks |->
                    [ name |-> agent_dict.tasks[i].name,
                      weight |-> agent_dict.tasks[i].weight, agent_id |-> agent_id ] ],
      configs |-> [ i \in DOMAIN agent_dict.config |->
                      from_dict(agent_dict.config[i], agent_id) ] ]

\* Agent.to_dict of the row id
to_dict(id) ==
    [ id |-> id, name |-> db[id], bio |-> JsonLoads(details[id].bio),
      config |-> [ i \in DOMAIN details[id].configs |->
                     to_config_dict(details[id].configs[i]) ],
      tasks |-> [ i \in DOMAIN details[id].tasks |->
                    [ name |-> details[id].tasks[i].name,
                      weight |-> details[id].tasks[i].weight ] ] ]

\* ---- ServerState reads ----
\* a lookup that finds the first row for every identifier
get_agent_found(agent_id) == 1

\* ServerState.get_agent: a numeric identifier is an id, anything else a name
get_agent(agent_id) ==
    IF IsIntLiteral(agent_id) THEN get_agent_by_id(ParseInt(agent_id))
    ELSE get_agent_by_name(make_safe_agent_name(agent_id))

\* ---- AgentController ----
TaskDone(t) == tasks[t].pc \in {"done", "cancelled"}

\* a check that never finds a task
is_running_never(c) == FALSE

\* a check that reads done() without its negation
is_running_inverted(c) ==
    /\ controllers[c].task # 0
    /\ TaskDone(controllers[c].task)

\* a controller that counts as stopped as soon as its stop event is set
is_running_until_signalled(c) ==
    /\ controllers[c].task # 0
    /\ ~TaskDone(controllers[c].task)
    /\ ~controllers[c].stop_event

\* self._task is not None and not self._task.done()
is_running(c) ==
    /\ controllers[c].task # 0
    /\ ~TaskDone(controllers[c].task)

LiveTasks == { t \in TaskIds : tasks[t].pc \in {"created", "wait"} }

\* the live loop tasks of the agent stored under key: every task runs the
\* _run_agent_loop of the controller that created it
KeyTasks(key) == { t \in LiveTasks : controllers[tasks[t].ctl].key = key }

\* the running status of a key: no controller registered, or its is_running()
is_agent_running(key) ==
    /\ agent_loops[key] # 0
    /\ is_running(agent_loops[key])

\* ---- GET /agents/{name}/status ----
\* the spellings a client may use in the path of a status request
StatusNames == Names \cup { <<"A">> }

\* agent_loops.get(agent_name): the dictionary is read with the name as given
\* in the path (the line that normalizes it is commented out)
get_agent_status(agent_name) ==
    IF get_agent(agent_name) = 0 THEN "404"
    ELSE LET agent_loop == IF agent_name \in DOMAIN agent_loops
                           THEN agent_loops[agent_name] ELSE 0 IN
         IF agent_loop # 0 THEN Bool(is_running(agent_loop)) ELSE "false"

FreeControllers == { c \in ControllerIds : ~controllers[c].made }
FreeTasks == { t \in TaskIds : tasks[t].pc = "unused" }
NewController ==
    LET free == FreeControllers \cap FreeTasks IN
    CHOOSE c \in free : \A d \in free : c <= d
NewTask == NewController

\* ---- time ----
Dec(n, d) == IF n > d THEN n - d ELSE 0

\* d time units pass: every pending timer moves d towards its deadline
ElapsedTasks(tk, d) ==
    [ t \in TaskIds |->
        IF tk[t].pc = "wait" THEN [ tk[t] EXCEPT !.timer = Dec(@, d) ] ELSE tk[t] ]

ElapsedCalls(cl, d) ==
    LET Later(r) == IF r.pc = "waiting" THEN [ r EXCEPT !.timer = Dec(@, d) ] ELSE r
    IN BagOfAll(Later, cl)

\* ---- object lifetime ----
\* Python frees an object once no reference reaches it.  A controller is
\* reachable from agent_loops, from a suspended stop_agent_loop frame and from
\* its own running task (self); a task from the event loop while it runs, from
\* its controller's _task and from a frame that awaits it.
KeptControllers(al, ct, tk, cl) ==
    { c \in ControllerIds :
        /\ ct[c].made
        /\ \/ \E k \in Keys : al[k] = c
           \/ \E r \in BagToSet(cl) : r.ctl = c
           \/ \E t \in TaskIds : tk[t].ctl = c /\ tk[t].pc \in {"created", "wait"} }

KeptTasks(al, ct, tk, cl) ==
    { t \in TaskIds :
        /\ tk[t].pc # "unused"
        /\ \/ tk[t].pc \in {"created", "wait"}
           \/ \E r \in BagToSet(cl) : r.task = t
           \/ \E c \in KeptControllers(al, ct, tk, cl) : ct[c].task = t }

CollectControllers(al, ct, tk, cl) ==
    [ c \in ControllerIds |->
        IF c \in KeptControllers(al, ct, tk, cl) THEN ct[c] ELSE NoController ]

CollectTasks(al, ct, tk, cl) ==
    [ t \in TaskIds |-> IF t \in KeptTasks(al, ct, tk, cl) THEN tk[t] ELSE NoTask ]

\* ServerState.__init__ imports the agents found in the config directory, one
\* row per name, and starts with no controller.
Init ==
    /\ db \in [ AgentIds -> {NoRow} \cup NewNames ]
    /\ \A i \in AgentIds : db[i] # NoRow => \A j \in 1..i : db[j] # NoRow
    /\ \A i, j \in AgentIds : (i # j /\ db[i] # NoRow) => db[i] # db[j]
    /\ details = [ i \in AgentIds |->
                     IF db[i] = NoRow THEN NoDetails
                     ELSE add_agent(AgentCreate(db[i], << >>), i) ]
    /\ agent_loops = [ k \in Keys |-> 0 ]
    /\ controllers = [ c \in ControllerIds |-> NoController ]
    /\ tasks = [ t \in TaskIds |-> NoTask ]
    /\ calls = EmptyBag
    /\ resp = NoResp

\* ---- the loop task: AgentController._run_agent_loop ----
\* the finally block: async with self._running_lock: self._task = None
LoopCleanup(c) == [ controllers EXCEPT ![c].task = 0 ]

\* The task's first step: while not self._stop_event.is_set(), then wait_for.
\* The step was queued by create_task, ahead of every timer callback that
\* fires later, so no timeout cancels a task before it.
LoopStart(t) ==
    /\ tasks[t].pc = "created"
    /\ LET c == tasks[t].ctl IN
       IF controllers[c].stop_event
       THEN LET tk == [ tasks EXCEPT ![t].pc = "done" ] IN
            /\ ~controllers[c].running_lock
            /\ tasks' = CollectTasks(agent_loops, LoopCleanup(c), tk, calls)
            /\ controllers' = CollectControllers(agent_loops, LoopCleanup(c), tk, calls)
       ELSE /\ tasks' = [ tasks EXCEPT ![t].pc = "wait", ![t].timer = LoopCadence ]
            /\ UNCHANGED controllers
    /\ resp' = NoResp
    /\ UNCHANGED << db, details, agent_loops, calls >>

\* a loop that ends when its wait times out
wait_timeout_ends_loop(task) == [ task EXCEPT !.pc = "done" ]

\* except asyncio.TimeoutError: pass, then the while condition and the next
\* iteration up to its wait
after_wait_timeout(task) == [ task EXCEPT !.timer = LoopCadence, !.backoff = FALSE ]

\* wait_for(self._stop_event.wait(), ...) timed out, in the iteration or in the
\* error handler: pass, next iteration
LoopWaitTimeout(t) ==
    /\ tasks[t].pc = "wait"
    /\ tasks[t].timer = 0
    /\ ~controllers[tasks[t].ctl].stop_event
    /\ ~tasks[t].must_cancel
    /\ tasks' = [ tasks EXCEPT ![t] = after_wait_timeout(@) ]
    /\ resp' = NoResp
    /\ UNCHANGED << db, details, agent_loops, controllers, calls >>

\* The wait ends: the stop event was set (break), or the task was cancelled
\* (CancelledError is no Exception and propagates).  When both hold the wait
\* may return its result or raise.  Either way the finally block runs.
LoopExit(t, how) ==
    /\ tasks[t].pc = "wait"
    /\ \/ how = "done" /\ controllers[tasks[t].ctl].stop_event
       \/ how = "cancelled" /\ tasks[t].must_cancel
    /\ ~controllers[tasks[t].ctl].running_lock
    /\ LET tk == [ tasks EXCEPT ![t].pc = how, ![t].timer = 0, ![t].must_cancel = FALSE ]
           ct == LoopCleanup(tasks[t].ctl) IN
       /\ tasks' = CollectTasks(agent_loops, ct, tk, calls)
       /\ controllers' = CollectControllers(agent_loops, ct, tk, calls)
    /\ resp' = NoResp
    /\ UNCHANGED << db, details, agent_loops, calls >>

\* ---- errors in the loop task ----
\* a handler that lets the error end the task
error_ends_task(task) == [ task EXCEPT !.pc = "done", !.timer = 0 ]

\* except Exception inside the while loop: the error is logged and the task
\* waits for the stop event with the longer timeout
backoff_wait(task) ==
    [ task EXCEPT !.pc = "wait", !.timer = ErrorBackoff, !.backoff = TRUE ]

\* an iteration begins: the while condition found the stop event clear, on
\* the task's first step or after a wait that timed out
IterationBegins(t) ==
    /\ \/ tasks[t].pc = "created"
       \/ tasks[t].pc = "wait" /\ tasks[t].timer = 0 /\ ~tasks[t].must_cancel
    /\ ~controllers[tasks[t].ctl].stop_event

\* A statement of the iteration raises an Exception (the code of the iteration
\* reads self.agent.name and logs; the agent's behaviour would run here).
LoopIterationError(t) ==
    /\ IterationBegins(t)
    /\ tasks' = [ tasks EXCEPT ![t] = backoff_wait(@) ]
    /\ resp' = NoResp
    /\ UNCHANGED << db, details, agent_loops, controllers, calls >>

\* An Exception raised outside the iteration's try block, by the first log
\* line of the task or inside the error handler: the outer except logs it, the
\* finally block runs and the task is done.
LoopFatalError(t) ==
    /\ tasks[t].pc = "created" \/ IterationBegins(t)
    /\ ~controllers[tasks[t].ctl].running_lock
    /\ LET tk == [ tasks EXCEPT ![t].pc = "done", ![t].timer = 0 ]
           ct == [ LoopCleanup(tasks[t].ctl) EXCEPT ![tasks[t].ctl].fatal = TRUE ] IN
       /\ tasks' = CollectTasks(agent_loops, ct, tk, calls)
       /\ controllers' = CollectControllers(agent_loops, ct, tk, calls)
    /\ resp' = NoResp
    /\ UNCHANGED << db, details, agent_loops, calls >>

\* ---- POST /agents/{name}/start ----
\* a start_agent_loop that clears the event but creates no task
start_agent_loop_no_task(c, key, t) ==
    [ controllers EXCEPT ![c] = [ made |-> TRUE, key |-> key, stop_event |-> FALSE,
                                  task |-> 0, running_lock |-> FALSE,
                                  fatal |-> FALSE ] ]

\* AgentController.__init__ followed by start_agent_loop on the new controller:
\* the lock of a new controller is free and its task is None, so the check
\* passes, the event is cleared and the task is created.
start_agent_loop(c, key, t) ==
    [ controllers EXCEPT ![c] = [ made |-> TRUE, key |-> key, stop_event |-> FALSE,
                                  task |-> t, running_lock |-> FALSE,
                                  fatal |-> FALSE ] ]

\* a start_agent without the lookup of the stored agent
start_agent_no_lookup(agent_name) ==
    LET agent_loop == agent_loops[make_safe_agent_name(agent_name)] IN
    IF agent_loop # 0 /\ controllers[agent_loop].task # 0
                      /\ ~TaskDone(controllers[agent_loop].task)
    THEN "already_running" ELSE "create"

\* a start_agent without the check of the registered controller
start_agent_unchecked(agent_name) ==
    IF get_agent_by_name(make_safe_agent_name(agent_name)) = 0 THEN "not_found"
    ELSE "create"

\* ServerState.start_agent decides: "not_found", "already_running" or "create"
start_agent_branch(agent_name) ==
    LET safe_name == make_safe_agent_name(agent_name)
        agent_loop == agent_loops[safe_name] IN
    IF get_agent_by_name(safe_name) = 0 THEN "not_found"
    ELSE IF agent_loop # 0 /\ is_running(agent_loop) THEN "already_running"
    ELSE "create"

\* a registration that replaces the whole registry
register_alone(safe_name, controller) ==
    [ k \in Keys |-> IF k = safe_name THEN controller ELSE 0 ]

\* self.agent_loops[safe_name] = controller
register(safe_name, controller) == [ agent_loops EXCEPT ![safe_name] = controller ]

\* a start_agent that registers before it has the handle
start_agent_registers_first(handle_ok) == TRUE

\* whether start_agent reaches the registration: the handle is constructed
\* first, inside the try, and its exception goes to the except clause
start_agent_registers(handle_ok) == handle_ok

StartAgent(agent_name, d, handle_ok) ==
    LET safe_name == make_safe_agent_name(agent_name)
        branch == start_agent_branch(agent_name) IN
    IF get_agent(agent_name) = 0
    THEN /\ d = 0 /\ handle_ok
         /\ resp' = Resp("start", agent_name, 404, "none", "none", "none")
         /\ UNCHANGED << db, details, agent_loops, controllers, tasks, calls >>
    ELSE IF branch # "create"
    THEN /\ d = 0 /\ handle_ok
         /\ resp' = Resp("start", agent_name, 500, "false", branch, "none")
         /\ UNCHANGED << db, details, agent_loops, controllers, tasks, calls >>
    ELSE IF ~handle_ok
    THEN /\ resp' = Resp("start", agent_name, 500, "false", "handle_error", "none")
         /\ tasks' = ElapsedTasks(tasks, d)
         /\ calls' = ElapsedCalls(calls, d)
         /\ agent_loops' = IF start_agent_registers(handle_ok)
                               /\ FreeControllers \cap FreeTasks # {}
                            THEN register(safe_name, NewController) ELSE agent_loops
         /\ UNCHANGED << db, details, controllers >>
    ELSE /\ FreeControllers \cap FreeTasks # {}
         /\ LET al == register(safe_name, NewController)
                ct == start_agent_loop(NewController, safe_name, NewTask)
                tk == [ ElapsedTasks(tasks, d) EXCEPT
                          ![NewTask] = [ pc |-> "created", ctl |-> NewController,
                                         timer |-> 0, must_cancel |-> FALSE,
                                         backoff |-> FALSE ] ] IN
            /\ agent_loops' = al
            /\ controllers' = CollectControllers(al, ct, tk, calls)
            /\ tasks' = CollectTasks(al, ct, tk, calls)
         /\ calls' = ElapsedCalls(calls, d)
         /\ resp' = Resp("start", agent_name, 200, "true", "ok", "none")
         /\ UNCHANGED << db, details >>

\* ---- AgentController.start_agent_loop on an existing controller ----
\* a start_agent_loop without its check
start_agent_loop_unchecked(c) == FALSE

\* a start_agent_loop that refuses only while no stop has been signalled
start_agent_loop_during_stop(c) == is_running(c) /\ ~controllers[c].stop_event

\* if await self.is_running(): raise ValueError, under self._running_lock
start_agent_loop_raises(c) == is_running(c)

\* a start that leaves the stop event as it finds it
stop_event_kept(c) == controllers[c].stop_event

\* self._stop_event.clear()
stop_event_cleared(c) == FALSE

\* the task id the next create_task gets
FreshTask == CHOOSE t \in FreeTasks : \A u \in FreeTasks : t <= u

\* A caller that holds a controller calls its start_agent_loop.  The lock is
\* free whenever a coroutine gets to run, and nothing between the check and
\* create_task suspends.  In the response ret is "raised" for the ValueError
\* and "none" for the normal return.
ControllerStart(c) ==
    /\ controllers[c].made
    /\ ~controllers[c].running_lock
    /\ IF start_agent_loop_raises(c)
       THEN /\ resp' = [ Resp("controller_start", controllers[c].key, 0, "raised",
                              "already_running", "raised") EXCEPT !.ctl = c ]
            /\ UNCHANGED << controllers, tasks >>
       ELSE /\ FreeTasks # {}
            /\ LET ct == [ controllers EXCEPT ![c].stop_event = stop_event_cleared(c),
                                             ![c].task = FreshTask, ![c].fatal = FALSE ]
                   tk == [ tasks EXCEPT
                             ![FreshTask] = [ pc |-> "created", ctl |-> c, timer |-> 0,
                                              must_cancel |-> FALSE, backoff |-> FALSE ] ] IN
               /\ controllers' = CollectControllers(agent_loops, ct, tk, calls)
               /\ tasks' = CollectTasks(agent_loops, ct, tk, calls)
            /\ resp' = [ Resp("controller_start", controllers[c].key, 0, "none", "ok", "none")
                         EXCEPT !.ctl = c ]
    /\ UNCHANGED << db, details, agent_loops, calls >>

\* ---- stop_agent_loop, up to its suspension ----
\* a stop_agent_loop without its first check of is_running()
stop_always_waits(agent_name) ==
    agent_loops[make_safe_agent_name(agent_name)] # 0

\* ServerState.stop_agent finds a controller and stop_agent_loop finds it
\* running: the handler will suspend in wait_for(current_task, timeout)
StopSuspends(agent_name) ==
    LET agent_loop == agent_loops[make_safe_agent_name(agent_name)] IN
    agent_loop # 0 /\ is_running(agent_loop)

\* a stop_agent_loop that waits for the task inside its async with block
stop_keeps_lock == TRUE

\* a stop_agent_loop whose wait_for is indented into the first async with
stop_waits_in_lock == TRUE

\* whether stop_agent_loop still holds _running_lock when it starts to wait:
\* the async with block of the first check ends before the event is set
stop_holds_lock == FALSE

\* current_task = self._task; self._stop_event.set(); wait_for(current_task, 5.0)
BeginWait(op, agent_name) ==
    LET c == agent_loops[make_safe_agent_name(agent_name)] IN
    /\ BagCardinality(calls) < MaxCalls
    /\ ~controllers[c].running_lock
    /\ controllers' = [ controllers EXCEPT ![c].stop_event = TRUE,
                                           ![c].running_lock = stop_holds_lock ]
    /\ calls' = calls (+) SetToBag({ [ pc |-> "waiting", op |-> op, name |-> agent_name,
                                       ctl |-> c, task |-> controllers[c].task,
                                       timer |-> StopTimeout ] })

\* a stop_agent that reports failure
stop_agent_fails(ctl_ret) == "false"

\* What ServerState.stop_agent returns for the boolean its controller's
\* stop_agent_loop returned: the result is awaited and dropped.
stop_agent_result(ctl_ret) == "true"

\* the router's answer to the boolean of ServerState.stop_agent
StopStatus(success) == IF success = "true" THEN 200 ELSE 500

\* ---- POST /agents/{name}/stop ----
StopAgent(agent_name) ==
    LET safe_name == make_safe_agent_name(agent_name) IN
    IF get_agent(agent_name) = 0
    THEN /\ resp' = Resp("stop", agent_name, 404, "none", "none", "none")
         /\ UNCHANGED << db, details, agent_loops, controllers, tasks, calls >>
    ELSE IF agent_loops[safe_name] = 0
    THEN /\ resp' = Resp("stop", agent_name, StopStatus("true"), "true", "no_controller", "none")
         /\ UNCHANGED << db, details, agent_loops, controllers, tasks, calls >>
    ELSE IF ~StopSuspends(agent_name)
    THEN /\ ~controllers[agent_loops[safe_name]].running_lock
         /\ resp' = [ Resp("stop", agent_name, StopStatus(stop_agent_result("true")),
                           stop_agent_result("true"), "already_stopped", "true")
                      EXCEPT !.ctl = agent_loops[safe_name] ]
         /\ UNCHANGED << db, details, agent_loops, controllers, tasks, calls >>
    ELSE /\ BeginWait("stop", agent_name)
         /\ resp' = NoResp
         /\ UNCHANGED << db, details, agent_loops, tasks >>

\* ---- DELETE /agents/{name} ----
\* ServerState.delete_agent: the row the identifier names, 0 when there is none
delete_target(agent_id) ==
    IF IsIntLiteral(agent_id) THEN get_agent_by_id(ParseInt(agent_id))
    ELSE get_agent_by_name(make_safe_agent_name(agent_id))

\* db_manager.delete_agent removes the row; agent_loops is not touched
DeleteRow(agent_id) ==
    LET row == delete_target(agent_id) IN
    IF row = 0
    THEN /\ resp' = Resp("delete", agent_id, 404, "false", "not_found", "none")
         /\ UNCHANGED << db, details >>
    ELSE /\ resp' = [ Resp("delete", agent_id, 204, "true", "ok", "none")
                      EXCEPT !.row_name = db[row] ]
         /\ db' = [ db EXCEPT ![row] = NoRow ]
         /\ details' = [ details EXCEPT ![row] = NoDetails ]

DeleteAgent(agent_name) ==
    IF StopSuspends(agent_name)
    THEN /\ BeginWait("delete", agent_name)
         /\ resp' = NoResp
         /\ UNCHANGED << db, details, agent_loops, tasks >>
    ELSE /\ DeleteRow(agent_name)
         /\ UNCHANGED << agent_loops, controllers, tasks, calls >>

\* ---- stop_agent_loop, after its suspension ----
\* wait_for's timeout elapsed before the task ended: the task is cancelled and
\* wait_for waits until it has ended.  The task is past its first step.
CallTimeout(r) ==
    /\ r.pc = "waiting"
    /\ r.timer = 0
    /\ tasks[r.task].pc = "wait"
    /\ tasks' = [ tasks EXCEPT ![r.task].must_cancel = TRUE ]
    /\ calls' = (calls (-) SetToBag({r})) (+) SetToBag({ [ r EXCEPT !.pc = "cancelling" ] })
    /\ resp' = NoResp
    /\ UNCHANGED << db, details, agent_loops, controllers >>

\* a wait that gives up at its deadline and leaves the task alone
wait_for_gives_up(r) == TaskDone(r.task) \/ r.timer = 0

\* wait_for(current_task, timeout) gives control back to stop_agent_loop only
\* once the awaited task has ended, also after a timeout
wait_for_returns(r) == TaskDone(r.task)

\* the deadline of the call's wait_for has been reached
Expired(r) == r.pc = "cancelling" \/ r.timer = 0

\* How stop_agent_loop ends once the awaited task has ended.  timed_out: the
\* wait_for reported its timeout (asyncio.TimeoutError, return False).  It
\* does when this call's timeout cancelled the task; when the task ended by
\* itself at the deadline, wait_for returns the result or reports the timeout.
\* Without a timeout a task cancelled by another caller makes wait_for
\* re-raise CancelledError, which no except clause of the handler catches;
\* otherwise the final check under the lock decides: not is_running().
stop_agent_loop_result(r, timed_out) ==
    IF timed_out THEN "false"
    ELSE IF tasks[r.task].pc = "cancelled" THEN "raised"
    ELSE Bool(~is_running(r.ctl))

CallResume(r, timed_out) ==
    /\ wait_for_returns(r)
    /\ timed_out => Expired(r)
    /\ (r.pc = "cancelling" /\ tasks[r.task].pc = "cancelled") => timed_out
    /\ ~timed_out => ~controllers[r.ctl].running_lock
    /\ LET cl == calls (-) SetToBag({r}) IN
       /\ calls' = cl
       /\ controllers' = CollectControllers(agent_loops, controllers, tasks, cl)
       /\ tasks' = CollectTasks(agent_loops, controllers, tasks, cl)
    /\ LET ctl_ret == stop_agent_loop_result(r, timed_out) IN
       IF ctl_ret = "raised"
       THEN /\ resp' = [ Resp(r.op, r.name, 500, "raised", "cancelled_error", "raised")
                         EXCEPT !.ctl = r.ctl ]
            /\ UNCHANGED << db, details >>
       ELSE IF r.op = "stop"
       THEN /\ resp' = [ Resp("stop", r.name, StopStatus(stop_agent_result(ctl_ret)),
                              stop_agent_result(ctl_ret), "stopped", ctl_ret)
                         EXCEPT !.ctl = r.ctl ]
            /\ UNCHANGED << db, details >>
       ELSE DeleteRow(r.name)
    /\ UNCHANGED agent_loops

\* ---- POST /agents/{name}/action ----
\* ServerState.request_action: a registered controller forwards to its agent
\* and re-raises; without one the action runs on a handle made for the call
\* and every failure is logged and answered with None.
request_action_result(agent_name, handle_ok, action_ok) ==
    LET safe_name == make_safe_agent_name(agent_name) IN
    IF agent_loops[safe_name] # 0
    THEN IF action_ok THEN "value" ELSE "raised"
    ELSE IF get_agent_by_name(safe_name) = 0 THEN "null"
    ELSE IF handle_ok /\ action_ok THEN "value" ELSE "null"

\* a request_action that keeps the handle it made for the call in the registry
request_action_keeps_handle(agent_name) ==
    LET safe_name == make_safe_agent_name(agent_name) IN
    IF agent_loops[safe_name] = 0 /\ get_agent_by_name(safe_name) # 0
    THEN [ agent_loops EXCEPT ![safe_name] = 1 ]
    ELSE agent_loops

\* agent_loops after ServerState.request_action: the handle made for the call
\* is a local and no branch assigns to the registry
request_action_loops(agent_name) == agent_loops

\* the router's answer to what ServerState.request_action did: 500 only when
\* it raised, 200 with status "success" for every returned value, None included
ActionStatus(ret) == IF ret = "raised" THEN 500 ELSE 200

\* a request_action that gives up the event loop while its action runs
request_action_yields == TRUE

\* whether request_action suspends between the start and the end of
\* perform_action: the call is a plain synchronous call, and awaiting the
\* controller's request_action, which has no await of its own, does not
\* suspend either
request_action_suspends == FALSE

\* the frames suspended in handlers after a request_action that took d
request_action_calls(agent_name, d) ==
    LET c == agent_loops[make_safe_agent_name(agent_name)] IN
    IF request_action_suspends /\ c # 0 /\ controllers[c].task # 0
                               /\ BagCardinality(calls) < MaxCalls
    THEN ElapsedCalls(calls, d)
           (+) SetToBag({ [ pc |-> "performing", op |-> "action", name |-> agent_name,
                            ctl |-> c, task |-> controllers[c].task, timer |-> 0 ] })
    ELSE ElapsedCalls(calls, d)

\* a request_action that sets the stop event when the action fails
request_action_stops_on_error(c, action_ok) ==
    IF action_ok THEN controllers[c] ELSE [ controllers[c] EXCEPT !.stop_event = TRUE ]

\* the controller after AgentController.request_action: the call goes to
\* self.agent whatever the task is, and neither branch assigns _task or
\* _stop_event
controller_request_action(c, action_ok) == controllers[c]

\* In the response of an action, ctl_ret is what perform_action did: "value",
\* "raised", or "none" when it was not called.
RequestAction(agent_name, d, handle_ok, action_ok) ==
    LET safe_name == make_safe_agent_name(agent_name)
        ret == request_action_result(agent_name, handle_ok, action_ok)
        path == IF agent_loops[safe_name] # 0 THEN "controller"
                ELSE IF get_agent_by_name(safe_name) = 0 THEN "not_found"
                ELSE "transient"
        performed == IF path = "not_found" \/ ~handle_ok THEN "none"
                     ELSE IF action_ok THEN "value" ELSE "raised" IN
    /\ agent_loops' = request_action_loops(agent_name)
    /\ controllers' = IF path = "controller"
                      THEN [ controllers EXCEPT ![agent_loops[safe_name]] =
                               controller_request_action(agent_loops[safe_name], action_ok) ]
                      ELSE controllers
    /\ UNCHANGED << db, details >>
    /\ IF get_agent(agent_name) = 0
       THEN /\ d = 0 /\ handle_ok /\ action_ok
            /\ resp' = Resp("action", agent_name, 404, "none", "none", "none")
            /\ UNCHANGED << tasks, calls >>
       ELSE /\ path = "not_found" => (d = 0 /\ handle_ok /\ action_ok)
            /\ path = "controller" => handle_ok
            /\ ~handle_ok => action_ok
            /\ resp' = Resp("action", agent_name, ActionStatus(ret), ret, path, performed)
            /\ tasks' = ElapsedTasks(tasks, d)
            /\ calls' = request_action_calls(agent_name, d)

\* ---- POST /agents ----
\* the configs a create request may carry
NewAgents == { AgentCreate(n, << >>) : n \in NewNames }

\* db_manager.add_agent stores the name as given; the answer is the to_dict of
\* the new row
CreateAgent(agent_data) ==
    /\ IF get_agent(agent_data.name) # 0
       THEN /\ resp' = [ Resp("create", agent_data.name, 409, "none", "exists", "none")
                         EXCEPT !.body = agent_data ]
            /\ UNCHANGED << db, details >>
       ELSE /\ NextRowId \in AgentIds
            /\ db' = [ db EXCEPT ![NextRowId] = agent_data.name ]
            /\ details' = [ details EXCEPT ![NextRowId] = add_agent(agent_data, NextRowId) ]
            /\ resp' = [ Resp("create", agent_data.name, 201, "true", "ok", "none")
                         EXCEPT !.row = NextRowId, !.body = agent_data ]
    /\ UNCHANGED << agent_loops, controllers, tasks, calls >>

\* ---- GET /agents/{name} ----
GetAgent(agent_name) ==
    /\ resp' = IF get_agent(agent_name) = 0
               THEN Resp("get", agent_name, 404, "null", "not_found", "none")
               ELSE [ Resp("get", agent_name, 200, "value", "ok", "none")
                      EXCEPT !.row = get_agent(agent_name) ]
    /\ UNCHANGED << db, details, agent_loops, controllers, tasks, calls >>

\* ---- PUT /agents/{name} ----
\* the bodies of an update request: exclude_unset leaves out what was not
\* sent.  name is NoRow when no name was sent, has_config tells whether a
\* config list was.
StoreUpdates ==
    { [ name |-> n, has_config |-> FALSE, config |-> << >> ] :
        n \in StoreNewNames }
    \cup { [ name |-> n, has_config |-> TRUE, config |-> c ] :
             n \in {NoRow} \cup StoreNewNames, c \in EntryLists }

\* db_manager.update_agent: setattr for each scalar field sent, the config rows
\* replaced when a config list was sent
UpdateAgent(agent_name, agent_data) ==
    LET row == get_agent(agent_name) IN
    /\ IF row = 0
       THEN /\ resp' = Resp("update", agent_name, 404, "none", "not_found", "none")
            /\ UNCHANGED << db, details >>
       ELSE /\ db' = IF agent_data.name = NoRow THEN db
                     ELSE [ db EXCEPT ![row] = agent_data.name ]
            /\ details' =
                  IF ~agent_data.has_config THEN details
                  ELSE [ details EXCEPT ![row].configs =
                           [ i \in DOMAIN agent_data.config |->
                               from_dict(agent_data.config[i], row) ] ]
            /\ resp' = [ Resp("update", agent_name, 200, "value", "ok", "none")
                         EXCEPT !.row = row ]
    /\ UNCHANGED << agent_loops, controllers, tasks, calls >>

\* ---- time ----
\* a coroutine that the event loop can run now
Ready ==
    \/ \E t \in TaskIds :
         \/ tasks[t].pc = "created"
         \/ /\ tasks[t].pc = "wait"
            /\ \/ tasks[t].timer = 0
               \/ tasks[t].must_cancel
               \/ controllers[tasks[t].ctl].stop_event
    \/ \E r \in BagToSet(calls) :
         \/ wait_for_returns(r)
         \/ r.pc = "waiting" /\ r.timer = 0

\* the event loop is idle until the next deadline: one time unit passes
Tick ==
    /\ ~Ready
    /\ \/ \E t \in TaskIds : tasks[t].pc = "wait"
       \/ \E r \in BagToSet(calls) : r.pc = "waiting"
    /\ tasks' = ElapsedTasks(tasks, 1)
    /\ calls' = ElapsedCalls(calls, 1)
    /\ resp' = NoResp
    /\ UNCHANGED << db, details, agent_loops, controllers >>

\* how long a synchronous call may hold the event loop
BlockTimes == { 0, StopTimeout }

Next ==
    \/ \E t \in TaskIds : LoopStart(t)
    \/ \E t \in TaskIds : LoopWaitTimeout(t)
    \/ \E t \in TaskIds, how \in {"done", "cancelled"} : LoopExit(t, how)
    \/ \E n \in Names, d \in BlockTimes, h \in BOOLEAN : StartAgent(n, d, h)
    \/ \E n \in Names : StopAgent(n)
    \/ \E n \in Names : DeleteAgent(n)
    \/ \E r \in BagToSet(calls) : CallTimeout(r)
    \/ \E r \in BagToSet(calls), timed_out \in BOOLEAN : CallResume(r, timed_out)
    \/ \E n \in Names, d \in BlockTimes, h, a \in BOOLEAN : RequestAction(n, d, h, a)
    \/ \E c \in NewAgents : CreateAgent(c)
    \/ Tick

Spec == Init /\ [][Next]_vars

\* The event loop runs every coroutine that is ready and its clock advances;
\* requests may or may not arrive.
Fairness ==
    /\ \A t \in TaskIds : WF_vars(LoopStart(t))
    /\ \A t \in TaskIds : WF_vars(LoopWaitTimeout(t))
    /\ \A t \in TaskIds : WF_vars(\E how \in {"done", "cancelled"} : LoopExit(t, how))
    /\ \A c \in ControllerIds :
         WF_vars(\E r \in BagToSet(calls) : r.ctl = c /\ CallTimeout(r))
    /\ \A c \in ControllerIds :
         WF_vars(\E r \in BagToSet(calls), timed_out \in BOOLEAN :
                    r.ctl = c /\ CallResume(r, timed_out))
    /\ WF_vars(Tick)

FairSpec == Spec /\ Fairness

\* ---- the controller under callers that start it again ----
ControllerNext ==
    \/ Next
    \/ \E c \in ControllerIds : ControllerStart(c)

ControllerSpec == Init /\ [][ControllerNext]_vars

ControllerFairSpec == ControllerSpec /\ Fairness

\* ---- the program with two stored agents ----
\* the names requests use: the second is a spelling of the stored "a_a"
KeyNames == { <<"a">>, <<"A", " ", "a">> }

\* two agents are stored under their normalized names, none is running
KeyInit ==
    /\ db = [ i \in AgentIds |-> IF i = 1 THEN <<"a">>
                                 ELSE IF i = 2 THEN <<"a", "_", "a">> ELSE NoRow ]
    /\ details = [ i \in AgentIds |->
                     IF db[i] = NoRow THEN NoDetails
                     ELSE add_agent(AgentCreate(db[i], << >>), i) ]
    /\ agent_loops = [ k \in Keys |-> 0 ]
    /\ controllers = [ c \in ControllerIds |-> NoController ]
    /\ tasks = [ t \in TaskIds |-> NoTask ]
    /\ calls = EmptyBag
    /\ resp = NoResp

KeyNext ==
    \/ \E t \in TaskIds : LoopStart(t)
    \/ \E t \in TaskIds : LoopWaitTimeout(t)
    \/ \E t \in TaskIds, how \in {"done", "cancelled"} : LoopExit(t, how)
    \/ \E n \in KeyNames, d \in BlockTimes, h \in BOOLEAN : StartAgent(n, d, h)
    \/ \E n \in KeyNames : StopAgent(n)
    \/ \E n \in KeyNames : DeleteAgent(n)
    \/ \E r \in BagToSet(calls) : CallTimeout(r)
    \/ \E r \in BagToSet(calls), timed_out \in BOOLEAN : CallResume(r, timed_out)
    \/ \E n \in KeyNames, d \in BlockTimes, h, a \in BOOLEAN : RequestAction(n, d, h, a)
    \/ Tick

KeySpec == KeyInit /\ [][KeyNext]_vars

\* ---- ServerState._make_safe_agent_name on arbitrary names ----
MaxNameLen == 3

NameChars == { "A", "a", " ", "_", "1" }

AnyNames == UNION { [ 1..n -> NameChars ] : n \in 0..MaxNameLen }

\* a caller normalizes a name; the response carries the result
MakeSafe(agent_name) ==
    /\ resp' = [ Resp("make_safe", agent_name, 0, "none", "none", "none")
                 EXCEPT !.body = make_safe_agent_name(agent_name) ]
    /\ UNCHANGED << db, details, agent_loops, controllers, tasks, calls >>

NameInit ==
    /\ db = [ i \in AgentIds |-> NoRow ]
    /\ details = [ i \in AgentIds |-> NoDetails ]
    /\ agent_loops = [ k \in Keys |-> 0 ]
    /\ controllers = [ c \in ControllerIds |-> NoController ]
    /\ tasks = [ t \in TaskIds |-> NoTask ]
    /\ calls = EmptyBag
    /\ resp = NoResp

NameNext == \E n \in AnyNames : MakeSafe(n)

NameSpec == NameInit /\ [][NameNext]_vars

\* ---- SafeAgentConfig.from_internal (models/configuration.py) ----
MaxEntries == 2

\* the names the repository gives blockchain network entries
NetworkNames == { "sonic", "ethereum", "solana" }

PrivateKeys == { "k1", "k2" }

\* model_dump of a NetworkConfig: every field is a key, None for an unset one
NetworkConfig(name, network, rpc, private_key) ==
    [ name |-> name, network |-> network, rpc |-> rpc, private_key |-> private_key ]

\* model_dump of a DiscordConfig
DiscordConfig ==
    [ name |-> "discord", message_read_count |-> 10, message_emoji_name |-> "e",
      server_id |-> "s" ]

ConfigItems ==
    { NetworkConfig(n, w, Null, k) :
        n \in NetworkNames, w \in { Null, "mainnet" }, k \in PrivateKeys }
    \cup { DiscordConfig }

\* model_dump of an AgentConfig with every optional field set
AgentConfig(config) ==
    [ name |-> <<"a">>, bio |-> << "x" >>, traits |-> << >>, examples |-> << >>,
      example_accounts |-> << >>, loop_delay |-> 1, config |-> config,
      tasks |-> << [ name |-> "t", weight |-> 1 ] >>, use_time_based_weights |-> FALSE,
      time_based_multipliers |-> [ tweet_night_multiplier |-> 1,
                                   engagement_day_multiplier |-> 1 ] ]

InternalConfigs ==
    { AgentConfig(c) : c \in UNION { [ 1..n -> ConfigItems ] : n \in 0..MaxEntries } }

\* the entries named sonic or ethereum are rebuilt from name, network and rpc;
\* every other entry is passed on as it is
from_internal(internal) ==
    [ internal EXCEPT !.config =
        [ i \in DOMAIN internal.config |->
            LET cfg == internal.config[i] IN
            IF cfg.name \in { "sonic", "ethereum" }
            THEN [ name |-> cfg.name, network |-> cfg.network, rpc |-> cfg.rpc ]
            ELSE cfg ] ]

\* a caller converts an internal config; the response carries both
FromInternal(internal) ==
    /\ resp' = [ Resp("from_internal", internal.name, 0, "none", "none", "none")
                 EXCEPT !.body = [ internal |-> internal, safe |-> from_internal(internal) ] ]
    /\ UNCHANGED << db, details, agent_loops, controllers, tasks, calls >>

SafeNext == \E internal \in InternalConfigs : FromInternal(internal)

\* nothing is stored or running, nothing has been converted
SafeInit ==
    /\ db = [ i \in AgentIds |-> NoRow ]
    /\ details = [ i \in AgentIds |-> NoDetails ]
    /\ agent_loops = [ k \in Keys |-> 0 ]
    /\ controllers = [ c \in ControllerIds |-> NoController ]
    /\ tasks = [ t \in TaskIds |-> NoTask ]
    /\ calls = EmptyBag
    /\ resp = NoResp

SafeSpec == SafeInit /\ [][SafeNext]_vars

\* ---- AgentController.is_running called at any time ----
\* a second read made after the loop task's cleanup has run
second_read_after_cleanup(c) == 0

\* is_running evaluates self._task twice: for "is not None" and for ".done()".
\* There is no await between the two, so both read the same state.
first_read(c) == controllers[c].task

second_read(c) == controllers[c].task

\* "raised": .done() on None
is_running_reads(c) ==
    IF first_read(c) = 0 THEN "false"
    ELSE IF second_read(c) = 0 THEN "raised"
    ELSE Bool(~TaskDone(second_read(c)))

\* the status route, or any caller that holds the controller, awaits
\* is_running(); the lock is not taken
IsRunning(c) ==
    /\ controllers[c].made
    /\ resp' = [ Resp("is_running", controllers[c].key, 0, is_running_reads(c), "none",
                      is_running_reads(c)) EXCEPT !.ctl = c ]
    /\ UNCHANGED << db, details, agent_loops, controllers, tasks, calls >>

StatusNext ==
    \/ ControllerNext
    \/ \E c \in ControllerIds : IsRunning(c)

StatusSpec == Init /\ [][StatusNext]_vars

StatusFairSpec == StatusSpec /\ Fairness

\* ---- the file-backed ServerState (models/server_state.py) ----
\* Its configs are a dict keyed by normalized name (the rows of db here), its
\* start_agent, stop_agent and AgentController have the logic of the
\* database-backed revision.
FileNames == { <<"a">>, <<"A">> }

\* self.agent_configs.get(agent_name), with the name as given
file_config(agent_name) == get_agent_by_name(agent_name)

\* ServerState.get_agent: self.agent_configs.get(safe_name)
file_get_agent(agent_id) == get_agent_by_name(make_safe_agent_name(agent_id))

\* self.agent_loops.get(agent_name), with the name as given
file_controller(agent_name) ==
    IF agent_name \in DOMAIN agent_loops THEN agent_loops[agent_name] ELSE 0

\* agent_controller.stop_agent_loop() without await: the call makes a
\* coroutine object and none of its statements runs
unawaited_stop_agent_loop(c) == controllers[c]

\* ServerState.delete_agent, a plain method.  agent_configs is not assigned.
FileDeleteAgent(agent_name) ==
    IF file_config(agent_name) = 0
    THEN /\ resp' = Resp("file_delete", agent_name, 0, "false", "no_config", "none")
         /\ UNCHANGED << db, details, agent_loops, controllers, tasks, calls >>
    ELSE IF file_controller(agent_name) = 0
    THEN /\ resp' = Resp("file_delete", agent_name, 0, "false", "no_controller", "none")
         /\ UNCHANGED << db, details, agent_loops, controllers, tasks, calls >>
    ELSE LET c == file_controller(agent_name)
             al == [ agent_loops EXCEPT ![agent_name] = 0 ]
             ct == [ controllers EXCEPT ![c] = unawaited_stop_agent_loop(c) ] IN
         /\ agent_loops' = al
         /\ controllers' = CollectControllers(al, ct, tasks, calls)
         /\ tasks' = CollectTasks(al, ct, tasks, calls)
         /\ resp' = [ Resp("file_delete", agent_name, 0, "true", "ok", "none")
                      EXCEPT !.ctl = c ]
         /\ UNCHANGED << db, details, calls >>

\* one config file, a.json, was loaded; nothing is running
FileInit ==
    /\ db = [ i \in AgentIds |-> IF i = 1 THEN <<"a">> ELSE NoRow ]
    /\ details = [ i \in AgentIds |->
                     IF db[i] = NoRow THEN NoDetails
                     ELSE add_agent(AgentCreate(db[i], << >>), i) ]
    /\ agent_loops = [ k \in Keys |-> 0 ]
    /\ controllers = [ c \in ControllerIds |-> NoController ]
    /\ tasks = [ t \in TaskIds |-> NoTask ]
    /\ calls = EmptyBag
    /\ resp = NoResp

FileNext ==
    \/ \E t \in TaskIds : LoopStart(t)
    \/ \E t \in TaskIds : LoopWaitTimeout(t)
    \/ \E t \in TaskIds, how \in {"done", "cancelled"} : LoopExit(t, how)
    \/ \E n \in FileNames, d \in BlockTimes, h \in BOOLEAN : StartAgent(n, d, h)
    \/ \E n \in FileNames : StopAgent(n)
    \/ \E n \in FileNames : FileDeleteAgent(n)
    \/ \E r \in BagToSet(calls) : CallTimeout(r)
    \/ \E r \in BagToSet(calls), timed_out \in BOOLEAN : CallResume(r, timed_out)
    \/ Tick

FileSpec == FileInit /\ [][FileNext]_vars

\* ---- the program with a loop whose statements may raise ----
FaultNext ==
    \/ Next
    \/ \E t \in TaskIds : LoopIterationError(t)
    \/ \E t \in TaskIds : LoopFatalError(t)

FaultSpec == Init /\ [][FaultNext]_vars

\* ---- the requests on stored configs, under every spelling of a name ----
StoreAgents == { AgentCreate(n, c) : n \in StoreNewNames, c \in EntryLists }

\* no legacy agent was found in the config directory
StoreInit ==
    /\ db = [ i \in AgentIds |-> NoRow ]
    /\ details = [ i \in AgentIds |-> NoDetails ]
    /\ agent_loops = [ k \in Keys |-> 0 ]
    /\ controllers = [ c \in ControllerIds |-> NoController ]
    /\ tasks = [ t \in TaskIds |-> NoTask ]
    /\ calls = EmptyBag
    /\ resp = NoResp

StoreNext ==
    \/ \E c \in StoreAgents : CreateAgent(c)
    \/ \E n \in StoreNames : GetAgent(n)
    \/ \E n \in StoreNames, u \in StoreUpdates : UpdateAgent(n, u)
    \/ \E n \in StoreNames : DeleteAgent(n)

StoreSpec == StoreInit /\ [][StoreNext]_vars

\* ---- properties ----

\* C1: of two start_agent calls for the same key that the event loop runs on
\* an agent that is not running, exactly one creates and starts a controller.
\* A call returns success only when the key has no live loop task and then
\* creates exactly one; a call that does not return success creates nothing;
\* and the call that directly follows a successful one for the same key fails
\* as already running.
C1_ConcurrentStarts ==
    [][ \A n \in Names :
          (resp'.op = "start" /\ resp'.name = n) =>
            LET k == make_safe_agent_name(n) IN
            /\ resp'.status = 200 =>
                  (KeyTasks(k) = {} /\ Cardinality(KeyTasks(k)') = 1)
            /\ resp'.status # 200 =>
                  (KeyTasks(k)' = KeyTasks(k) /\ agent_loops' = agent_loops)
            /\ (resp.op = "start" /\ resp.status = 200
                  /\ make_safe_agent_name(resp.name) = k) =>
                  (resp'.ret = "false" /\ resp'.why = "already_running") ]_vars

\* the second of two calls is refused while the task the first one created has
\* not yet taken its first step
C1_Witness ==
    /\ resp.op = "start"
    /\ resp.why = "already_running"
    /\ \E t \in KeyTasks(make_safe_agent_name(resp.name)) : tasks[t].pc = "created"

\* C2: each key has at most one live loop task and that task is the _task of
\* the controller registered under the key; agent_loops never replaces or
\* drops a controller whose loop task is live.
C2_OneLoopPerKey ==
    /\ [](\A k \in Keys :
            /\ Cardinality(KeyTasks(k)) <= 1
            /\ \A t \in KeyTasks(k) :
                 /\ agent_loops[k] = tasks[t].ctl
                 /\ controllers[agent_loops[k]].task = t)
    /\ [][ \A k \in Keys :
            is_agent_running(k) => agent_loops'[k] = agent_loops[k] ]_vars

\* a new controller runs under a key while the one it replaced, stopped, is
\* still held by the stop call that waits for it
C2_Witness ==
    \E k \in Keys, c \in ControllerIds :
        /\ is_agent_running(k)
        /\ c # agent_loops[k]
        /\ controllers[c].made
        /\ controllers[c].key = k

\* C3: stop_agent returns the boolean of its controller's stop_agent_loop, and
\* the stop request is answered 500 when that boolean is false.
C3_StopResultVerbatim ==
    (resp.op = "stop" /\ resp.ctl_ret \in {"true", "false"}) =>
        /\ resp.ret = resp.ctl_ret
        /\ resp.ctl_ret = "false" => resp.status = 500

C5_DeleteStopsLoop ==
    (resp.op = "delete" /\ resp.status = 204) =>
        /\ get_agent(resp.name) = 0
        /\ KeyTasks(make_safe_agent_name(resp.row_name)) = {}

\* C6: once a delete has been answered 204, agent_loops holds no controller
\* under the key of the deleted agent.
C6_DeleteClearsRegistry ==
    (resp.op = "delete" /\ resp.status = 204) =>
        agent_loops[make_safe_agent_name(resp.row_name)] = 0

\* C7: after a stop_agent that returned True, with no start of the key since
\* the call was made, the key is not running; a key that is not running stays
\* so until a start succeeds; and a stop_agent called on a key that is not
\* running returns True at once, without waiting.
C7_StopIdempotent ==
    /\ [](\A n \in Names :
            (resp.op = "stop" /\ resp.name = n /\ resp.ret = "true"
               /\ resp.ctl = agent_loops[make_safe_agent_name(n)])
            => ~is_agent_running(make_safe_agent_name(n)))
    /\ [][ \A k \in Keys :
            (~is_agent_running(k) /\ is_agent_running(k)') =>
               (resp'.op = "start" /\ resp'.status = 200
                  /\ make_safe_agent_name(resp'.name) = k) ]_vars
    /\ [][ \A n \in Names :
            (~is_agent_running(make_safe_agent_name(n)) /\ get_agent(n) # 0
               /\ resp'.op = "stop" /\ resp'.name = n /\ calls' = calls)
            => (resp'.ret = "true" /\ resp'.status = 200) ]_vars
    /\ [][ BagCardinality(calls') > BagCardinality(calls) =>
            \E r \in BagToSet(calls') :
               /\ r.pc = "waiting"
               /\ r.timer = StopTimeout
               /\ is_agent_running(make_safe_agent_name(r.name)) ]_vars

\* a further stop of a stopped controller returned True after every earlier
\* stop call had returned
C7_Witness ==
    /\ resp.op = "stop"
    /\ resp.why = "already_stopped"
    /\ resp.ret = "true"
    /\ calls = EmptyBag

\* C8: a start of a stored agent whose registered controller has a live loop
\* task fails as already running and leaves registry, controllers (task
\* reference, stop event) and tasks as they were.
C8_StartWhileRunning ==
    [][ \A n \in Names :
          LET k == make_safe_agent_name(n) IN
          (get_agent(n) # 0 /\ get_agent_by_name(k) # 0 /\ agent_loops[k] # 0
             /\ controllers[agent_loops[k]].task \in LiveTasks
             /\ resp'.op = "start" /\ resp'.name = n)
          => /\ resp'.status = 500
             /\ resp'.ret = "false"
             /\ resp'.why = "already_running"
             /\ agent_loops' = agent_loops
             /\ controllers' = controllers
             /\ tasks' = tasks ]_vars

\* a start was refused while the loop of the key waits between two iterations
\* with its stop event clear
C8_Witness ==
    /\ resp.op = "start"
    /\ resp.why = "already_running"
    /\ LET c == agent_loops[make_safe_agent_name(resp.name)] IN
       /\ tasks[controllers[c].task].pc = "wait"
       /\ ~controllers[c].stop_event

\* C9: a start for a key under which no agent is stored fails as not found
\* (404 from the route, or False from start_agent) and changes neither the
\* registry nor any controller or task.
C9_StartUnknown ==
    [][ \A n \in Names :
          (get_agent_by_name(make_safe_agent_name(n)) = 0
             /\ resp'.op = "start" /\ resp'.name = n)
          => /\ resp'.ret # "true"
             /\ resp'.status = 404 \/ (resp'.status = 500 /\ resp'.why = "not_found")
             /\ agent_loops' = agent_loops
             /\ controllers' = controllers
             /\ tasks' = tasks ]_vars

\* start_agent returned False for a key without a stored agent, and the key
\* has no registry entry
C9_Witness ==
    /\ resp.op = "start"
    /\ resp.why = "not_found"
    /\ agent_loops[make_safe_agent_name(resp.name)] = 0

\* C10: when a start is answered with success, a controller is registered
\* under the key, its _task is the task its start_agent_loop created, and the
\* key is running.
C10_StartedIsRunning ==
    (resp.op = "start" /\ resp.status = 200) =>
        LET k == make_safe_agent_name(resp.name)
            c == agent_loops[k] IN
        /\ c # 0
        /\ controllers[c].made
        /\ controllers[c].key = k
        /\ controllers[c].task # 0
        /\ tasks[controllers[c].task].pc = "created"
        /\ tasks[controllers[c].task].ctl = c
        /\ is_agent_running(k)

\* a start returned success while a stop call still waits on the controller
\* that the new one replaces
C10_Witness ==
    /\ resp.op = "start"
    /\ resp.status = 200
    /\ calls # EmptyBag

\* C11: an action requested for a stored agent that has no registry entry (it
\* was never started) runs on a handle made for the call and leaves the
\* registry and every controller as they were: no entry appears under the key
\* and the key is not running afterwards, whether perform_action returned or
\* raised.
C11_TransientAction ==
    [][ \A n \in Names :
          LET k == make_safe_agent_name(n) IN
          (get_agent(n) # 0 /\ get_agent_by_name(k) # 0 /\ agent_loops[k] = 0
             /\ resp'.op = "action" /\ resp'.name = n)
          => /\ resp'.why = "transient"
             /\ agent_loops' = agent_loops
             /\ controllers' = controllers
             /\ LiveTasks' = LiveTasks
             /\ agent_loops'[k] = 0
             /\ ~is_agent_running(k)' ]_vars

\* perform_action raised on the handle made for the call, and the key still
\* has no registry entry
C11_Witness ==
    /\ resp.op = "action"
    /\ resp.why = "transient"
    /\ resp.ctl_ret = "raised"
    /\ agent_loops[make_safe_agent_name(resp.name)] = 0

\* C12: when perform_action raised, request_action raises to the route and the
\* request is answered 500, with a registered controller and without one.
C12_ActionErrorReported ==
    (resp.op = "action" /\ resp.ctl_ret = "raised") =>
        /\ resp.ret = "raised"
        /\ resp.status = 500

\* C14: for a stored agent and any spelling of its name, the status request
\* reports running exactly when a controller is registered under the
\* normalized key and its loop task is live.
C14_StatusByNormalizedKey ==
    \A n \in StatusNames :
        get_agent(n) # 0 =>
            get_agent_status(n) = Bool(is_agent_running(make_safe_agent_name(n)))

\* C13: once an agent has been created under a name that is not a number,
\* get_agent resolves every spelling with the same normalized key to the row
\* that the create stored.
C13_SpellingsResolve ==
    (resp.op = "create" /\ resp.status = 201 /\ ~IsIntLiteral(resp.name)) =>
        \A n \in StoreNames :
            make_safe_agent_name(n) = make_safe_agent_name(resp.name)
                => get_agent(n) = resp.row

\* C15: once a create has stored the config c, get_agent(c.name) finds a
\* record with the name, the text list and the tasks of c, and with one
\* integration entry per entry of c, under the same integration name and with
\* every key the entry carried.
C15_RoundTrip ==
    (resp.op = "create" /\ resp.status = 201) =>
        LET c == resp.body
            row == get_agent(c.name) IN
        /\ row # 0
        /\ to_dict(row).name = c.name
        /\ to_dict(row).bio = c.bio
        /\ to_dict(row).tasks = c.tasks
        /\ Len(to_dict(row).config) = Len(c.config)
        /\ \A i \in DOMAIN c.config :
             LET sent == c.config[i]
                 got == to_dict(row).config[i] IN
             /\ got.name = sent.name
             /\ sent.network # Absent => got.network = sent.network
             /\ sent.rpc # Absent => got.rpc = sent.rpc
             /\ sent.private_key # Absent => got.private_key = sent.private_key
             /\ sent.model # Absent => got.model = sent.model

\* C16: a create for a name whose normalized key is already stored is answered
\* already-exists and leaves the stored rows as they were; and no two stored
\* rows ever have the same normalized key.
C16_OnePerKey ==
    /\ [](\A i, j \in RowIds :
            i # j => make_safe_agent_name(db[i]) # make_safe_agent_name(db[j]))
    /\ [][ (resp'.op = "create"
              /\ \E i \in RowIds :
                    make_safe_agent_name(db[i]) = make_safe_agent_name(resp'.name))
           => (resp'.status = 409 /\ db' = db /\ details' = details) ]_vars

\* C17: a delete under a name that is not a number is answered not-found
\* exactly when no row is stored under the normalized key of the name, and a
\* delete answered not-found changes neither the stored rows nor the registry.
C17_DeleteNotFound ==
    [][ \A n \in StoreNames :
          (~IsIntLiteral(n) /\ resp'.op = "delete" /\ resp'.name = n) =>
             /\ (resp'.status = 404) <=>
                   ~(\E i \in RowIds :
                        make_safe_agent_name(db[i]) = make_safe_agent_name(n))
             /\ resp'.status = 404 =>
                   (db' = db /\ details' = details /\ agent_loops' = agent_loops
                      /\ controllers' = controllers) ]_vars

\* C20: when stop_agent_loop has returned False because its timeout elapsed,
\* the controller is still running, still holds its task, and is still
\* registered under its key.
C20_TimeoutKeepsRunning ==
    (resp.op = "stop" /\ resp.why = "stopped" /\ resp.ctl_ret = "false") =>
        /\ agent_loops[make_safe_agent_name(resp.name)] # 0
        /\ controllers[resp.ctl].task # 0
        /\ is_running(resp.ctl)

C19_FatalErrorStops ==
    /\ [][ \A t \in TaskIds, c \in ControllerIds :
            (tasks[t].ctl = c /\ LoopFatalError(t)) => ~is_running(c)' ]_vars
    /\ [](\A c \in ControllerIds :
            (controllers[c].fatal /\ ~controllers[c].stop_event) => ~is_running(c))
    /\ [][ \A n \in Names, c \in ControllerIds :
            (agent_loops[make_safe_agent_name(n)] = c /\ get_agent(n) # 0
               /\ controllers[c].fatal /\ ~controllers[c].stop_event
               /\ resp'.op = "stop" /\ resp'.name = n /\ resp'.ctl = c)
            => /\ resp'.ret = "true"
               /\ resp'.status = 200
               /\ resp'.why = "already_stopped"
               /\ calls' = calls ]_vars
    /\ [][ \A c \in ControllerIds :
            (controllers[c].fatal /\ ~controllers[c].stop_event) =>
               ~(\E r \in BagToSet(calls') : r.ctl = c) ]_vars

\* a stop was answered as already stopped for a controller whose task had
\* been ended by an error, with no stop called before
C19_Witness ==
    /\ resp.op = "stop"
    /\ resp.why = "already_stopped"
    /\ resp.ctl # 0
    /\ controllers[resp.ctl].fatal
    /\ ~controllers[resp.ctl].stop_event

\* C21: no loop task is ever cancelled: no task has a cancellation requested
\* on it and none ends by CancelledError.
C21_NeverCancelled ==
    \A t \in TaskIds :
        /\ ~tasks[t].must_cancel
        /\ tasks[t].pc # "cancelled"

\* C22: while a controller's loop task is live, a stop event that is set stays
\* set: no step, a repeated start_agent_loop included, clears it on a
\* controller that is still running afterwards.  Under fair scheduling a
\* running controller whose stop event is set stops running, also when the
\* stop that set the event reached its deadline.
C22_SignalPersists ==
    /\ [][ \A c \in ControllerIds :
            (controllers[c].stop_event /\ is_running(c) /\ is_running(c)')
            => controllers'[c].stop_event ]_vars
    /\ \A c \in ControllerIds :
         (controllers[c].stop_event /\ is_running(c)) ~> ~is_running(c)

\* a stop has reached its deadline while the task it set the event for is
\* still live, and the event is still set
C22_Witness ==
    \E r \in BagToSet(calls) :
        /\ Expired(r)
        /\ r.task \in LiveTasks
        /\ controllers[r.ctl].stop_event
        /\ is_running(r.ctl)

\* C23: a stop called while the loop task is in its between-iterations wait
\* returns True before its timeout elapses.  A pending call whose task is in
\* the wait was made while the task was there (a task that finds the event set
\* never enters the wait), so: no such call reaches its deadline, and a call
\* whose timeout fired (which happens only on a task in the wait) does not
\* return anything but True.
C23_StopInWaitSucceeds ==
    /\ [](\A r \in BagToSet(calls) : tasks[r.task].pc = "wait" => ~Expired(r))
    /\ [][ \A r \in BagToSet(calls) :
            (r.pc = "cancelling" /\ calls' = calls (-) SetToBag({r}) /\ resp'.op = "stop")
            => resp'.ctl_ret = "true" ]_vars

\* C24: a step of startAgent, stopAgent, requestAction or deleteAgent on one
\* key (the handler answering, a stop or delete beginning its wait, or the
\* timeout of its wait firing) leaves, for every other key, the registry
\* entry, the registered controller's task reference, its stop event and its
\* running status as they were.
C24_KeysIndependent ==
    [][ \A k \in Keys :
          LET view == IF agent_loops[k] = 0 THEN << 0, 0, FALSE, FALSE >>
                      ELSE << agent_loops[k], controllers[agent_loops[k]].task,
                              controllers[agent_loops[k]].stop_event,
                              is_running(agent_loops[k]) >> IN
          ( \/ /\ resp'.op \in {"start", "stop", "action", "delete"}
               /\ make_safe_agent_name(resp'.name) # k
            \/ \E r \in BagToSet(calls') :
                 /\ CopiesIn(r, calls') > CopiesIn(r, calls)
                 /\ r.pc = "cancelling" \/ r.timer = StopTimeout
                 /\ make_safe_agent_name(r.name) # k )
          => view' = view ]_vars

\* an operation on one key answers while the controller registered under
\* another key is running with a stop pending on it
C24_Witness ==
    \E k \in Keys :
        /\ resp.op \in {"start", "stop", "action", "delete"}
        /\ make_safe_agent_name(resp.name) # k
        /\ agent_loops[k] # 0
        /\ is_running(agent_loops[k])
        /\ controllers[agent_loops[k]].stop_event
        /\ agent_loops[make_safe_agent_name(resp.name)] # 0

\* C25: a stop of a stored agent whose key has no registered controller, or
\* whose registered controller is not running, answers success in the same
\* step and changes nothing: the registry, every controller (stop events
\* included), every task, the pending calls and the stored rows are as
\* before.  A stop event is only ever set, and a wait only ever begun, on a
\* controller that was running.
C25_StopNoOp ==
    /\ [][ \A n \in KeyNames :
             LET agent_loop == agent_loops[make_safe_agent_name(n)] IN
             ( /\ get_agent(n) # 0
               /\ \/ agent_loop = 0
                  \/ ~is_running(agent_loop)
               /\ resp'.op = "stop" /\ resp'.name = n
               /\ BagCardinality(calls') >= BagCardinality(calls) )
             => /\ resp'.ret = "true" /\ resp'.status = 200
                /\ UNCHANGED << db, details, agent_loops, controllers, tasks, calls >> ]_vars
    /\ [][ \A c \in ControllerIds :
             (controllers'[c].stop_event /\ ~controllers[c].stop_event)
             => is_running(c) ]_vars
    /\ [][ BagCardinality(calls') > BagCardinality(calls)
             => \E r \in BagToSet(calls') :
                  /\ CopiesIn(r, calls') > CopiesIn(r, calls)
                  /\ r.task \in LiveTasks
                  /\ controllers[r.ctl].task = r.task ]_vars

\* a stop has answered success for a key that has no registered controller
\* while the other key's controller is running
C25_Witness ==
    /\ resp.op = "stop"
    /\ resp.status = 200
    /\ agent_loops[make_safe_agent_name(resp.name)] = 0
    /\ \E k \in Keys : agent_loops[k] # 0 /\ is_running(agent_loops[k])

\* C26: for a name under which nothing is stored (no row has its normalized
\* name and, when it is numeric, no row has it as id), a start, stop or action
\* request is answered 404 in one step that leaves rows, registry,
\* controllers, tasks (their timers included: no handle is built and no action
\* runs) and pending calls unchanged, and the status route answers 404.
C26_UnknownName404 ==
    /\ [][ \A n \in Names :
             ( /\ get_agent_by_name(make_safe_agent_name(n)) = 0
               /\ IsIntLiteral(n) => get_agent_by_id(ParseInt(n)) = 0
               /\ resp'.op \in {"start", "stop", "action"} /\ resp'.name = n
               /\ BagCardinality(calls') >= BagCardinality(calls) )
             => /\ resp'.status = 404
                /\ resp'.ctl_ret = "none"
                /\ UNCHANGED << db, details, agent_loops, controllers, tasks, calls >> ]_vars
    /\ [](\A n \in StatusNames :
             ( /\ get_agent_by_name(make_safe_agent_name(n)) = 0
               /\ IsIntLiteral(n) => get_agent_by_id(ParseInt(n)) = 0 )
             => get_agent_status(n) = "404")

\* an action request for a name whose row was deleted has been answered 404
\* while a controller is still registered under its key and running
C26_Witness ==
    /\ resp.op = "action"
    /\ resp.status = 404
    /\ get_agent_by_name(make_safe_agent_name(resp.name)) = 0
    /\ agent_loops[make_safe_agent_name(resp.name)] # 0
    /\ is_running(agent_loops[make_safe_agent_name(resp.name)])

\* C27: the config from_internal returns has no private_key in any entry, and
\* every internal config that differs from the converted one only in private
\* keys converts to the same safe config.
C27_NoPrivateKey ==
    resp.op = "from_internal" =>
        /\ \A i \in DOMAIN resp.body.safe.config :
             "private_key" \notin DOMAIN resp.body.safe.config[i]
        /\ \A other \in InternalConfigs :
             ( /\ Len(other.config) = Len(resp.body.internal.config)
               /\ \A i \in DOMAIN other.config :
                    LET a == other.config[i]
                        b == resp.body.internal.config[i] IN
                    /\ a.name = b.name
                    /\ a.name \in NetworkNames
                         => (a.network = b.network /\ a.rpc = b.rpc) )
             => from_internal(other) = resp.body.safe

\* C28: the normalization of every name is defined, a name of the same length
\* without spaces and upper-case letters, and normalizing it again gives the
\* same name.
C28_NormalizeIdempotent ==
    resp.op = "make_safe" =>
        /\ Len(resp.body) = Len(resp.name)
        /\ \A i \in DOMAIN resp.body : resp.body[i] \in NameChars \ { " ", "A" }
        /\ make_safe_agent_name(resp.body) = resp.body

\* a name with an upper-case letter and a space has been normalized to a
\* different name
C28_Witness ==
    /\ resp.op = "make_safe"
    /\ \E i, j \in DOMAIN resp.name : resp.name[i] = "A" /\ resp.name[j] = " "
    /\ resp.body # resp.name

\* C29: a start_agent_loop on a controller whose current task is live raises
\* and changes no controller and no task; a start_agent_loop that returns has
\* created exactly one task, not yet started, as its controller's current
\* task; and a controller never has two live tasks.
C29_StartOnce ==
    /\ [][ \A c \in ControllerIds :
             (resp'.op = "controller_start" /\ resp'.ctl = c
                /\ controllers[c].task \in LiveTasks)
             => /\ resp'.ret = "raised"
                /\ UNCHANGED << controllers, tasks, agent_loops, calls >> ]_vars
    /\ [][ \A c \in ControllerIds :
             (resp'.op = "controller_start" /\ resp'.ctl = c /\ resp'.ret = "none")
             => /\ controllers'[c].task \notin LiveTasks
                /\ tasks'[controllers'[c].task].pc = "created"
                /\ Cardinality({ t \in TaskIds : tasks'[t].pc = "created" })
                     = Cardinality({ t \in TaskIds : tasks[t].pc = "created" }) + 1 ]_vars
    /\ [](\A c \in ControllerIds :
             Cardinality({ t \in LiveTasks : tasks[t].ctl = c }) <= 1)

\* a start_agent_loop has raised on a controller whose task is live and has a
\* stop pending on it
C29_Witness ==
    /\ resp.op = "controller_start"
    /\ resp.ret = "raised"
    /\ is_running(resp.ctl)
    /\ \E r \in BagToSet(calls) : r.ctl = resp.ctl /\ r.task = controllers[resp.ctl].task

C31_ActionKeepsController ==
    [][ \A n \in Names, c \in ControllerIds :
          (get_agent(n) # 0 /\ agent_loops[make_safe_agent_name(n)] = c
             /\ resp'.op = "action" /\ resp'.name = n)
          => /\ resp'.ctl_ret \in {"value", "raised"}
             /\ resp'.ctl_ret = "raised" => (resp'.ret = "raised" /\ resp'.status = 500)
             /\ \A x \in ControllerIds :
                  /\ controllers'[x].task = controllers[x].task
                  /\ controllers'[x].stop_event = controllers[x].stop_event
             /\ \A t \in TaskIds :
                  /\ tasks'[t].pc = tasks[t].pc
                  /\ tasks'[t].must_cancel = tasks[t].must_cancel
             /\ is_running(c)' <=> is_running(c)
             /\ agent_loops' = agent_loops ]_vars

\* the handle of a running controller has raised, and the controller is still
\* running with its stop event clear
C31_Witness ==
    /\ resp.op = "action"
    /\ resp.ctl_ret = "raised"
    /\ agent_loops[make_safe_agent_name(resp.name)] # 0
    /\ is_running(agent_loops[make_safe_agent_name(resp.name)])
    /\ ~controllers[agent_loops[make_safe_agent_name(resp.name)]].stop_event

\* C32: when a start succeeds for a key whose registered controller has its
\* stop event set (a start_agent that registers a new controller, or a
\* start_agent_loop on the stopped controller itself), the controller then
\* registered is running a task in its first state with the stop event clear;
\* a running controller whose stop event is clear is still running after
\* every step; and a stop event becomes set only in a step in which a stop or
\* delete begins to wait on that controller.
C32_RestartIsFresh ==
    /\ [][ \A k \in Keys, c \in ControllerIds :
             ( /\ agent_loops[k] # 0
               /\ controllers[agent_loops[k]].stop_event
               /\ \/ resp'.op = "start" /\ resp'.status = 200
                     /\ make_safe_agent_name(resp'.name) = k
                  \/ resp'.op = "controller_start" /\ resp'.ret = "none"
                     /\ resp'.ctl = agent_loops[k]
               /\ agent_loops'[k] = c )
             => /\ ~controllers'[c].stop_event
                /\ is_running(c)'
                /\ tasks'[controllers'[c].task].pc = "created" ]_vars
    /\ [][ \A c \in ControllerIds :
             (is_running(c) /\ ~controllers[c].stop_event) => is_running(c)' ]_vars
    /\ [][ \A c \in ControllerIds :
             (is_running(c) /\ ~controllers[c].stop_event /\ controllers'[c].stop_event)
             => \E r \in BagToSet(calls') :
                  /\ CopiesIn(r, calls') > CopiesIn(r, calls)
                  /\ r.ctl = c
                  /\ r.pc = "waiting" /\ r.timer = StopTimeout ]_vars

\* a stopped controller has been started again after its stop returned: it is
\* running with a clear stop event and its loop is in the wait
C32_Witness ==
    \E c \in ControllerIds :
        /\ controllers[c].made
        /\ controllers[c].task # 0
        /\ controllers[c].task # c
        /\ tasks[controllers[c].task].pc = "wait"
        /\ ~controllers[c].stop_event
        /\ calls = EmptyBag

\* C33: a start whose handle construction failed is answered as a failure and
\* leaves the registry and every controller as they were, and no task is
\* created or ended.
C33_HandleFailureKeepsRegistry ==
    [][ (resp'.op = "start" /\ resp'.why = "handle_error")
        => /\ resp'.ret = "false"
           /\ resp'.status = 500
           /\ agent_loops' = agent_loops
           /\ controllers' = controllers
           /\ \A t \in TaskIds : tasks'[t].pc = tasks[t].pc ]_vars

\* the handle construction has failed for a key whose stopped controller is
\* still the registered one
C33_Witness ==
    /\ resp.op = "start"
    /\ resp.why = "handle_error"
    /\ agent_loops[make_safe_agent_name(resp.name)] # 0
    /\ controllers[agent_loops[make_safe_agent_name(resp.name)]].made
    /\ controllers[agent_loops[make_safe_agent_name(resp.name)]].stop_event
    /\ ~is_running(agent_loops[make_safe_agent_name(resp.name)])

\* C34: no request_action is ever suspended while its perform_action runs:
\* every suspended handler frame is a stop or a delete waiting for a task.  A
\* step in which perform_action runs is the step of one request, and in it no
\* task and no suspended handler takes a step, so the call has ended before
\* any other call on the handle begins.
C34_ActionsOneAtATime ==
    /\ [](\A r \in BagToSet(calls) : r.op \in {"stop", "delete"})
    /\ [][ (resp'.op = "action" /\ resp'.ctl_ret \in {"value", "raised"})
           => /\ \A t \in TaskIds : /\ tasks'[t].pc = tasks[t].pc
                                    /\ tasks'[t].ctl = tasks[t].ctl
              /\ BagCardinality(calls') = BagCardinality(calls)
              /\ \A r \in BagToSet(calls') :
                   \E q \in BagToSet(calls) : [ r EXCEPT !.timer = 0 ] = [ q EXCEPT !.timer = 0 ]
              /\ controllers' = controllers ]_vars

\* perform_action has run on the handle of a registered controller whose loop
\* task is in its wait, while a stop of that controller is suspended
C34_Witness ==
    /\ resp.op = "action"
    /\ resp.why = "controller"
    /\ resp.ctl_ret = "value"
    /\ \E r \in BagToSet(calls) :
         /\ r.ctl = agent_loops[make_safe_agent_name(resp.name)]
         /\ r.pc = "waiting"
         /\ tasks[r.task].pc = "wait"

\* C35: a live loop task whose controller's stop event is clear is still live,
\* and its controller still running, after every step that is not an error
\* outside the iteration's try block; and when its wait has timed out, its
\* next step, unless an error is raised, is another iteration that ends in the
\* wait of the loop's cadence.
C35_LoopKeepsRunning ==
    /\ [][ \A t \in TaskIds, c \in ControllerIds :
             ( /\ tasks[t].pc \in {"created", "wait"}
               /\ tasks[t].ctl = c
               /\ ~controllers[c].stop_event
               /\ ~LoopFatalError(t) )
             => /\ tasks'[t].pc \in {"created", "wait"}
                /\ controllers'[c].task = t
                /\ is_running(c)' ]_vars
    /\ [][ \A t \in TaskIds :
             ( /\ tasks[t].pc = "wait"
               /\ tasks[t].timer = 0
               /\ ~controllers[tasks[t].ctl].stop_event
               /\ tasks'[t] # tasks[t]
               /\ ~LoopFatalError(t)
               /\ ~LoopIterationError(t) )
             => /\ tasks'[t].pc = "wait"
                /\ tasks'[t].timer = LoopCadence
                /\ ~tasks'[t].backoff ]_vars

\* the between-iterations wait has timed out with no stop requested, and the
\* controller is running
C35_Witness ==
    \E t \in TaskIds :
        /\ tasks[t].pc = "wait"
        /\ tasks[t].timer = 0
        /\ ~tasks[t].backoff
        /\ ~controllers[tasks[t].ctl].stop_event
        /\ is_running(tasks[t].ctl)
        /\ calls = EmptyBag

\* C36: when the file-backed delete_agent returns True for a key whose
\* registered controller was running, the controller's loop task has ended,
\* the key has no registry entry, and get_agent finds no config for it.
C36_FileDeleteStops ==
    [][ \A n \in FileNames, c \in ControllerIds, t \in TaskIds :
          ( /\ file_controller(n) = c
            /\ controllers[c].task = t
            /\ is_running(c)
            /\ resp'.op = "file_delete" /\ resp'.name = n /\ resp'.ret = "true" )
          => /\ tasks'[t].pc \notin {"created", "wait"}
             /\ agent_loops'[make_safe_agent_name(n)] = 0
             /\ file_get_agent(n)' = 0 ]_vars

\* C37: start, stop, is_running and the loop task's cleanup never block each
\* other on _running_lock: the lock is free whenever a coroutine is
\* suspended, in particular while a stop call waits for the loop task, so a
\* loop task whose stop event is set or that was cancelled gets the lock,
\* clears the controller's task reference and ends.
C37_NoLockDeadlock ==
    /\ [](\A c \in ControllerIds : ~controllers[c].running_lock)
    /\ \A t \in TaskIds :
         ( /\ tasks[t].pc \in {"created", "wait"}
           /\ controllers[tasks[t].ctl].stop_event \/ tasks[t].must_cancel )
            ~> (tasks[t].pc \notin {"created", "wait"})
    /\ [][ \A t \in TaskIds :
             ( /\ tasks[t].pc \in {"created", "wait"}
               /\ tasks'[t].pc \in {"done", "cancelled"} )
             => /\ ~controllers[tasks[t].ctl].running_lock
                /\ controllers'[tasks[t].ctl].task = 0 ]_vars

\* the loop task has cleaned up and ended while a stop call is still
\* suspended in its wait for that task
C37_Witness ==
    \E r \in BagToSet(calls) :
        /\ r.pc = "waiting"
        /\ tasks[r.task].pc = "done"
        /\ controllers[r.ctl].task = 0
        /\ ~controllers[r.ctl].running_lock

\* C38: the loop task's cleanup (self._task = None) clears the reference to
\* the task that runs it: when a task ends, the controller's reference is
\* to that task, and no live task is ever left without its controller's
\* reference, also when the controller is started again later.
C38_CleanupClearsOwnTask ==
    /\ [](\A t \in TaskIds :
            tasks[t].pc \in {"created", "wait"} => controllers[tasks[t].ctl].task = t)
    /\ [][ \A t \in TaskIds :
             ( /\ tasks[t].pc \in {"created", "wait"}
               /\ tasks'[t].pc \in {"done", "cancelled"} )
             => /\ controllers[tasks[t].ctl].task = t
                /\ controllers'[tasks[t].ctl].task = 0 ]_vars

\* a controller whose earlier task has cleaned up was started again and
\* refers to its new, live task
C38_Witness ==
    /\ resp.op = "controller_start"
    /\ resp.why = "ok"
    /\ controllers[resp.ctl].task # 0
    /\ tasks[controllers[resp.ctl].task].pc = "created"
    /\ tasks[controllers[resp.ctl].task].ctl = resp.ctl

\* C39: of two stop calls that wait for the loop task of one controller at
\* the same time, each returns; a call whose deadline has not been reached
\* returns True, no call ends with an exception, and the controller is
\* stopped when a call has returned.
C39_ConcurrentStops ==
    [][ \A r \in BagToSet(calls) :
          ( /\ r.op = "stop"
            /\ calls' = calls (-) SetToBag({r})
            /\ resp'.op = "stop"
            /\ resp'.ctl = r.ctl
            /\ \E q \in BagToSet(calls (-) SetToBag({r})) : q.op = "stop" /\ q.ctl = r.ctl )
          => /\ resp'.ctl_ret # "raised"
             /\ ~Expired(r) => resp'.ctl_ret = "true"
             /\ tasks[r.task].pc \in {"done", "cancelled"} ]_vars

\* C40: whenever get_agent resolves an identifier x to the stored agent a, a
\* start, stop, action or delete request for x works on a: the start finds
\* a's config and registers under a's normalized name, the stop and the action
\* use the controller registered under a's normalized name, and the delete
\* removes a's row and, when that controller is running, has waited for it.
C40_SameAgentEverywhere ==
    [][ \A x \in Names :
          LET a == get_agent(x)
              key == make_safe_agent_name(db[a])
              registered == agent_loops[key] # 0 IN
          (a # 0 /\ resp'.name = x) =>
             /\ resp'.op = "start" =>
                  /\ resp'.why # "not_found"
                  /\ resp'.status = 200 => agent_loops'[key] # 0
             /\ (resp'.op = "stop" /\ registered) => resp'.why # "no_controller"
             /\ (resp'.op = "action" /\ registered) => resp'.why = "controller"
             /\ (resp'.op = "delete" /\ resp'.status = 204) =>
                  /\ resp'.row_name = db[a]
                  /\ (registered /\ is_running(agent_loops[key])) => calls' # calls ]_vars

====
